---- MODULE Spec2Model ----
(***************************************************************************)
(* Model of tensorflow_datasets/core/features/video_feature.py:            *)
(* Video.__init__, Video._ffmpeg_decode and Video.encode_example, run by   *)
(* concurrent workers over one shared temporary-file namespace.            *)
(***************************************************************************)
EXTENDS Integers, Sequences, FiniteSets, TLC

(* ------------------------------ bounds --------------------------------- *)

\* Largest number of frame files one decoder run writes.
MaxFrames == 2

\* Largest number the decoder gives to its first output file.
MaxStart == 9

\* Number of names the temporary-name generator can return.
NumTmpNames == 2

(* ------------------------- program constants --------------------------- *)

\* Field width of the zero-padded frame number in '%010d.'.
FrameNumberWidth == 10

(* ------------------------------ universe ------------------------------- *)

\* Workers that call encode_example on the same Video connector.
Calls == {"w1", "w2"}

\* Paths the callers own: one holds a video, one does not exist.
SrcPaths == {<<"src", "video.mkv">>, <<"src", "missing.mkv">>}

\* Paths tempfile.mktemp / tempfile.mkdtemp can return (one directory).
TmpPaths == {<<"tmp", n>> : n \in 1..NumTmpNames}

Paths == SrcPaths \cup TmpPaths

NoPath == <<"none", 0>>

\* Full contents of the caller's video file.
VideoBytes == <<1, 2>>

\* What a copy interrupted half-way leaves on disk.
PartialBytes == <<1>>

NoEntry == [kind |-> "none"]

FileEntry(owner, data) == [kind |-> "file", owner |-> owner, data |-> data]

DirEntry(owner, files) == [kind |-> "dir", owner |-> owner, files |-> files]

NoExc == [type |-> "None"]

NoProcess == [state |-> "none"]

\* ffmpeg_stdin = None: nothing is written to the decoder's standard input.
NoStdin == [piped |-> FALSE]

\* The file the caller's streams are opened on.
StreamFile == <<"src", "video.mkv">>

\* Values handed to encode_example.  "noseek" and "noread" are values that
\* are neither ndarray, nor string, nor a readable stream.
Inputs ==
    {[kind |-> "array", val |-> "np_video"]}
    \cup {[kind |-> "path", val |-> p] : p \in SrcPaths}
    \cup {[kind |-> "stream", data |-> VideoBytes, pos |-> q] : q \in {0, Len(VideoBytes)}}
    \cup {[kind |-> "noseek"], [kind |-> "noread"]}

NoInput == [kind |-> "none"]

(* ------------------------ pure helpers of the code --------------------- *)

\* Decimal digits of n, most significant first, as character codes.
RECURSIVE Digits(_)
Digits(n) == IF n < 10 THEN <<48 + n>> ELSE Append(Digits(n \div 10), 48 + (n % 10))

\* Left-pad s with '0' to at least w characters.
RECURSIVE ZeroPad(_, _)
ZeroPad(s, w) == IF Len(s) >= w THEN s ELSE ZeroPad(<<48>> \o s, w)

\* The number without its padding, as '%d' % n.
FormatUnpadded(n, w) == Digits(n)

\* Python's '%0<w>d' % n for n >= 0.
FormatNumber(n, w) == ZeroPad(Digits(n), w)

\* Characters of the encoding format.
FormatChars(fmt) == IF fmt = "png" THEN <<112, 110, 103>> ELSE <<106, 112, 101, 103>>

\* Name of the file the decoder writes for frame number n under the pattern
\* '%010d.' + encoding_format.
FrameFileName(n, fmt) == FormatNumber(n, FrameNumberWidth) \o <<46>> \o FormatChars(fmt)

\* Python's str comparison a < b: by code point, a proper prefix is smaller.
RECURSIVE StrLess(_, _)
StrLess(a, b) ==
    IF b = <<>> THEN FALSE
    ELSE IF a = <<>> THEN TRUE
    ELSE IF Head(a) # Head(b) THEN Head(a) < Head(b)
    ELSE StrLess(Tail(a), Tail(b))

\* Insert x into the ascending sequence s.
RECURSIVE Insert(_, _)
Insert(x, s) ==
    IF s = <<>> THEN <<x>>
    ELSE IF StrLess(x, Head(s)) THEN <<x>> \o s
    ELSE <<Head(s)>> \o Insert(x, Tail(s))

RECURSIVE InsertionSort(_)
InsertionSort(s) == IF s = <<>> THEN <<>> ELSE Insert(Head(s), InsertionSort(Tail(s)))

\* The names as listed, left unsorted.
Unsorted(s) == s

\* sorted(os.listdir(ffmpeg_dir))
sorted(s) == InsertionSort(s)

\* Every order in which os.listdir can return the names in S.
Listings(S) ==
    {s \in [1..Cardinality(S) -> S] : \A i, j \in 1..Cardinality(S) : i # j => s[i] # s[j]}

\* Contents of the file called name among the directory's files.
FileData(files, name) == (CHOOSE f \in files : f.name = name).data

(* ------------------------------- state --------------------------------- *)

VARIABLES
    ctor,     \* the arguments Video(...) was called with
    heap,     \* the list objects: the caller's ffmpeg_extra_args and the connector's own
    config,   \* the Video connector built by __init__
    fs,       \* the filesystem: what each path holds
    pc,       \* where each worker's encode_example call stands
    arg,      \* video_or_path_or_fobj of each call
    local,    \* the local variables of encode_example and _ffmpeg_decode
    hist      \* per call: what has happened so far (history, read by the properties)

vars == <<ctor, heap, config, fs, pc, arg, local, hist>>

NoValue == [kind |-> "none"]

InitLocal ==
    [video_temp_path |-> NoPath,
     path_or_fobj |-> NoInput,
     ffmpeg_dir |-> NoPath,
     ffmpeg_args |-> <<>>,
     ffmpeg_stdin |-> NoStdin,
     process |-> NoProcess,
     listed |-> <<>>,
     images |-> NoValue,
     encoded_video |-> NoValue,
     exc |-> NoExc]

InitHist ==
    [primary |-> NoExc,      \* the first exception raised in the call
     nspawn |-> 0,           \* decoder processes started by the call
     ntemp |-> 0,            \* temporary files and directories created by the call
     delegated |-> NoValue]  \* what was handed to Sequence.encode_example

(* ----------------------------- Video.__init__ -------------------------- *)

Shapes == {<<5, 4, 2, 3>>, <<4, 2, 3>>, <<1, 5, 4, 2, 3>>}

\* Values of ffmpeg_extra_args: none, or the number of the first frame file.
ExtraArgsInputs == {<<>>, <<<<"-start_number">>, <<"int", MaxStart>>>>}

\* A rank test that lets every shape through.
RankAny(shape) == TRUE

\* Line 88: len(shape) != 4, negated.
RankIsFour(shape) == Len(shape) = 4

\* The list the caller passed, kept as it is.
SameList(ffmpeg_extra_args) == ffmpeg_extra_args

\* Line 92: list(ffmpeg_extra_args or []) is a new list object.
NewList(ffmpeg_extra_args) == "own_list"

\* Video.__init__: the connector, or the error raised instead.
VideoInit(shape, encoding_format, copy_locally, ffmpeg_extra_args) ==
    IF ~RankIsFour(shape)
    THEN [raised |-> [type |-> "ValueError", msg |-> "Video shape should be of rank 4"]]
    ELSE [raised |-> NoExc,
          _copy_locally |-> copy_locally,
          _encoding_format |-> encoding_format,
          _extra_ffmpeg_args |-> NewList(ffmpeg_extra_args),
          _length |-> shape[1]]

\* The extra arguments the connector reads at a call: its list as it is then.
ExtraArgs == heap[config._extra_ffmpeg_args]

Init ==
    /\ \E sh \in Shapes, cl \in BOOLEAN, ex \in ExtraArgsInputs :
         /\ ctor = [shape |-> sh, encoding_format |-> "png", copy_locally |-> cl,
                    ffmpeg_extra_args |-> "args_list", passed |-> ex]
         /\ heap = [args_list |-> ex, own_list |-> IF RankIsFour(sh) THEN ex ELSE <<>>]
         /\ config = VideoInit(sh, "png", cl, "args_list")
    /\ fs = [p \in Paths |->
               IF p = <<"src", "video.mkv">> THEN FileEntry("caller", VideoBytes)
               ELSE NoEntry]
    /\ pc = [c \in Calls |-> "idle"]
    /\ arg = [c \in Calls |-> NoInput]
    /\ local = [c \in Calls |-> InitLocal]
    /\ hist = [c \in Calls |-> InitHist]

(* --------------------------- library behaviour ------------------------- *)

\* Names tempfile.mktemp may return and tempfile.mkdtemp may create: those
\* that do not exist at the time of the call.
UnusedTmpPaths(f) == {p \in TmpPaths : f[p].kind = "none"}

\* tempfile.mktemp() and the name choice of tempfile.mkdtemp(): a name that
\* does not exist, or FileExistsError when no candidate name is free.
tempfile_name(f) ==
    IF UnusedTmpPaths(f) = {}
    THEN {[exc |-> [type |-> "FileExistsError", op |-> "tempfile"], name |-> NoPath]}
    ELSE {[exc |-> NoExc, name |-> t] : t \in UnusedTmpPaths(f)}

\* tf.gfile.Copy(src, dst) with overwrite=False: the possible results, each
\* the new filesystem and the exception raised (NoExc on success).
gfile_Copy(f, c, src, dst) ==
    IF f[src].kind # "file"
    THEN {[fs |-> f, exc |-> [type |-> "NotFoundError"], created |-> 0]}
    ELSE IF f[dst].kind # "none"
    THEN {[fs |-> f, exc |-> [type |-> "AlreadyExistsError"], created |-> 0]}
    ELSE {[fs |-> [f EXCEPT ![dst] = FileEntry(c, f[src].data)],
           exc |-> NoExc, created |-> 1],
          [fs |-> [f EXCEPT ![dst] = FileEntry(c, PartialBytes)],
           exc |-> [type |-> "CopyIOError"], created |-> 1]}

\* os.unlink(p): removes a file; raises OSError on anything else.
os_unlink(f, p) ==
    IF f[p].kind = "file"
    THEN [fs |-> [f EXCEPT ![p] = NoEntry], exc |-> NoExc]
    ELSE [fs |-> f, exc |-> [type |-> "OSError", op |-> "unlink"]]

\* The directory left in place.
shutil_rmtree_skipped(f, d) == f

\* shutil.rmtree(d): removes the directory and all it holds.
shutil_rmtree(f, d) == [f EXCEPT ![d] = NoEntry]

(* ------------------------- the external decoder ------------------------ *)

\* The bytes the decoder reads: the file named after -i, or its standard
\* input for pipe:0; "missing" when the file is not there.
DecoderInput(f, source, stdin) ==
    IF source = <<"pipe:0">>
    THEN [found |-> TRUE, data |-> IF stdin.piped THEN stdin.data ELSE <<>>]
    ELSE IF f[source].kind = "file" THEN [found |-> TRUE, data |-> f[source].data]
    ELSE [found |-> FALSE, data |-> <<>>]

\* The frame files a run writes: count frames numbered from start, the
\* j-th holding the j-th image of the video it read.
FrameFiles(data, start, count, fmt) ==
    {[name |-> FrameFileName(start + j - 1, fmt),
      data |-> [video |-> data, frame |-> j]] : j \in 1..count}

\* The number of the first frame file: 1, or what -start_number says.
StartNumber(args) ==
    IF \E i \in 1..Len(args) - 1 : args[i] = <<"-start_number">>
    THEN args[(CHOOSE i \in 1..Len(args) - 1 : args[i] = <<"-start_number">>) + 1][2]
    ELSE 1

\* How a run of the decoder can end.  An input that is missing or is not a
\* whole video makes it exit nonzero with nothing written; otherwise it
\* writes some frames and exits zero, or fails after the first one.  On
\* standard input it can also fail because the format cannot be read from
\* a pipe (lines 39-42).
DecoderRuns(input, args, fmt) ==
    IF ~input.found \/ input.data # VideoBytes
    THEN {[returncode |-> 1, stdout |-> "ffmpeg", stderr |-> "No such file or directory",
           files |-> {}]}
    ELSE {[returncode |-> 0, stdout |-> "ffmpeg", stderr |-> "frames written",
           files |-> FrameFiles(input.data, StartNumber(args), count, fmt)] :
             count \in 0..MaxFrames}
         \cup {[returncode |-> 1, stdout |-> "ffmpeg", stderr |-> "Invalid data",
                 files |-> FrameFiles(input.data, StartNumber(args), 1, fmt)]}
         \cup (IF args[3] = <<"pipe:0">>
               THEN {[returncode |-> 1, stdout |-> "ffmpeg",
                      stderr |-> "format cannot be read from a pipe", files |-> {}]}
               ELSE {})

(* --------------------------- exception plumbing ------------------------ *)

\* The call's history after exception e is raised in it.
Raised(h, e) == [h EXCEPT !.primary = IF @ = NoExc THEN e ELSE @]

\* The local copy left in place when the decode succeeded.
AfterDecodeSkipUnlink(video_temp_path, e) ==
    IF e = NoExc THEN "super"
    ELSE IF video_temp_path # NoPath THEN "unlink" ELSE "done"

\* Where encode_example goes on when _ffmpeg_decode is left (by return
\* or by exception e): into the finally of the copy branch, to the
\* downstream encoder, or out of the call.
AfterDecode(video_temp_path, e) ==
    IF video_temp_path # NoPath THEN "unlink"
    ELSE IF e = NoExc THEN "super" ELSE "done"

(* ---------------------------- encode_example --------------------------- *)

\* The branches with the copy_locally test made first.
EncodeBranchCopyFirst(v, copy_locally) ==
    IF copy_locally /\ v.kind \in {"array", "path"} THEN "copy"
    ELSE IF v.kind = "array" THEN "array"
    ELSE "decode"

\* Lines 137-148: which branch the input value takes.
EncodeBranch(v, copy_locally) ==
    IF v.kind = "array" THEN "array"
    ELSE IF v.kind = "path" /\ copy_locally THEN "copy"
    ELSE "decode"

\* encode_example is entered with value v: lines 137-141 and 147-148.
Call(c) ==
    /\ pc[c] = "idle"
    /\ config.raised = NoExc
    /\ \E v \in Inputs :
         /\ arg' = [arg EXCEPT ![c] = v]
         /\ LET branch == EncodeBranch(v, config._copy_locally) IN
              \/ /\ branch = "array"
                 /\ local' = [local EXCEPT ![c].encoded_video = v]
                 /\ pc' = [pc EXCEPT ![c] = "super"]
                 /\ UNCHANGED hist
              \/ /\ branch = "copy"
                 /\ \E t \in tempfile_name(fs) :
                      IF t.exc = NoExc
                      THEN /\ local' = [local EXCEPT ![c].video_temp_path = t.name]
                           /\ pc' = [pc EXCEPT ![c] = "copy"]
                           /\ UNCHANGED hist
                      ELSE /\ local' = [local EXCEPT ![c].exc = t.exc]
                           /\ hist' = [hist EXCEPT ![c] = Raised(@, t.exc)]
                           /\ pc' = [pc EXCEPT ![c] = "done"]
              \/ /\ branch = "decode"
                 /\ local' = [local EXCEPT ![c].path_or_fobj = v]
                 /\ pc' = [pc EXCEPT ![c] = "decode"]
                 /\ UNCHANGED hist
    /\ UNCHANGED <<ctor, heap, config, fs>>

\* Line 143: tf.gfile.Copy(video_or_path_or_fobj, video_temp_path).
Copy(c) ==
    /\ pc[c] = "copy"
    /\ \E r \in gfile_Copy(fs, c, arg[c].val, local[c].video_temp_path) :
         /\ fs' = r.fs
         /\ IF r.exc = NoExc
            THEN /\ local' = [local EXCEPT ![c].path_or_fobj =
                                [kind |-> "path", val |-> local[c].video_temp_path]]
                 /\ hist' = [hist EXCEPT ![c].ntemp = @ + r.created]
                 /\ pc' = [pc EXCEPT ![c] = "decode"]
            ELSE /\ local' = [local EXCEPT ![c].exc = r.exc]
                 /\ hist' = [hist EXCEPT ![c] = [Raised(@, r.exc) EXCEPT !.ntemp = @ + r.created]]
                 /\ pc' = [pc EXCEPT ![c] = "unlink"]
    /\ UNCHANGED <<ctor, heap, config, arg>>

\* Lines 145-146: finally: os.unlink(video_temp_path).  An exception
\* raised by os.unlink replaces the one that was propagating.
UnlinkTemp(c) ==
    /\ pc[c] = "unlink"
    /\ LET r == os_unlink(fs, local[c].video_temp_path)
           e == IF r.exc # NoExc THEN r.exc ELSE local[c].exc
       IN /\ fs' = r.fs
          /\ local' = [local EXCEPT ![c].exc = e]
          /\ hist' = [hist EXCEPT ![c] = IF r.exc # NoExc THEN Raised(@, r.exc) ELSE @]
          /\ pc' = [pc EXCEPT ![c] = IF e = NoExc THEN "super" ELSE "done"]
    /\ UNCHANGED <<ctor, heap, config, arg>>

\* Line 149: super(Video, self).encode_example(encoded_video).
Super(c) ==
    /\ pc[c] = "super"
    /\ hist' = [hist EXCEPT ![c].delegated = local[c].encoded_video]
    /\ pc' = [pc EXCEPT ![c] = "done"]
    /\ UNCHANGED <<ctor, heap, config, fs, arg, local>>

\* The caller changes the list it passed as ffmpeg_extra_args.
CallerMutates ==
    /\ config.raised = NoExc
    /\ heap.args_list = ctor.passed
    /\ heap' = [heap EXCEPT !.args_list = Append(@, <<"-an">>)]
    /\ UNCHANGED <<ctor, config, fs, pc, arg, local, hist>>

\* The call is over; the worker takes its next example.
Return(c) ==
    /\ pc[c] = "done"
    /\ pc' = [pc EXCEPT ![c] = "idle"]
    /\ arg' = [arg EXCEPT ![c] = NoInput]
    /\ local' = [local EXCEPT ![c] = InitLocal]
    /\ hist' = [hist EXCEPT ![c] = InitHist]
    /\ UNCHANGED <<ctor, heap, config, fs>>

(* ---------------------------- _ffmpeg_decode ---------------------------- *)

\* isinstance(path_or_fobj, six.string_types)
IsString(x) == x.kind = "path"

\* A read that takes any value for a stream and reads nothing from the
\* values that are none.
SeekAndReadLenient(x) ==
    IF x.kind = "stream"
    THEN [exc |-> NoExc, data |-> SubSeq(x.data, 0 + 1, Len(x.data)), pos |-> Len(x.data)]
    ELSE [exc |-> NoExc, data |-> <<>>, pos |-> 0]

\* The read made from where the stream stands, without the seek.
SeekAndReadNoRewind(x) ==
    IF x.kind = "noseek"
    THEN [exc |-> [type |-> "AttributeError", attr |-> "seek"], data |-> <<>>, pos |-> 0]
    ELSE IF x.kind = "noread"
    THEN [exc |-> [type |-> "AttributeError", attr |-> "read"], data |-> <<>>, pos |-> 0]
    ELSE [exc |-> NoExc, data |-> SubSeq(x.data, x.pos + 1, Len(x.data)), pos |-> Len(x.data)]

\* Lines 106-107: path_or_fobj.seek(0), then path_or_fobj.read(): the
\* exception raised, the bytes read and the position the stream is left at.
SeekAndRead(x) ==
    IF x.kind = "noseek"
    THEN [exc |-> [type |-> "AttributeError", attr |-> "seek"], data |-> <<>>, pos |-> 0]
    ELSE IF x.kind = "noread"
    THEN [exc |-> [type |-> "AttributeError", attr |-> "read"], data |-> <<>>, pos |-> 0]
    ELSE [exc |-> NoExc, data |-> SubSeq(x.data, 0 + 1, Len(x.data)), pos |-> Len(x.data)]

\* The arguments of a stream with nothing kept for standard input.
SourceArgsNoStdin(x) ==
    IF IsString(x)
    THEN [exc |-> NoExc, args |-> <<<<"ffmpeg">>, <<"-i">>, x.val>>, stdin |-> NoStdin]
    ELSE [exc |-> SeekAndRead(x).exc, args |-> <<<<"ffmpeg">>, <<"-i">>, <<"pipe:0">>>>,
          stdin |-> NoStdin]

\* Lines 101-107: the first arguments and the standard input of the decoder.
SourceArgs(x) ==
    IF IsString(x)
    THEN [exc |-> NoExc, args |-> <<<<"ffmpeg">>, <<"-i">>, x.val>>, stdin |-> NoStdin]
    ELSE LET r == SeekAndRead(x) IN
         [exc |-> r.exc, args |-> <<<<"ffmpeg">>, <<"-i">>, <<"pipe:0">>>>,
          stdin |-> [piped |-> TRUE, data |-> r.data]]

\* Line 110: os.path.join(ffmpeg_dir, '%010d.' + self._encoding_format)
OutputPattern(ffmpeg_dir, encoding_format) == <<"join", ffmpeg_dir, "%010d.", encoding_format>>

\* The arguments with the output pattern put before the extra arguments.
BuildArgsPatternFirst(source_args, extra_ffmpeg_args, output_pattern) ==
    source_args \o <<output_pattern>> \o extra_ffmpeg_args

\* Lines 111-112: ffmpeg_args += self._extra_ffmpeg_args, then
\* ffmpeg_args.append(output_pattern).
BuildArgs(source_args, extra_ffmpeg_args, output_pattern) ==
    Append(source_args \o extra_ffmpeg_args, output_pattern)

\* Lines 99-112: the arguments are built and the temporary directory made.
\* An exception of lines 101-107 leaves _ffmpeg_decode before mkdtemp, and
\* one of mkdtemp (line 109) leaves it before the try.
DecodeBegin(c) ==
    /\ pc[c] = "decode"
    /\ LET x == local[c].path_or_fobj
           s == SourceArgs(x)
       IN IF s.exc # NoExc
          THEN /\ local' = [local EXCEPT ![c].exc = s.exc]
               /\ hist' = [hist EXCEPT ![c] = Raised(@, s.exc)]
               /\ pc' = [pc EXCEPT ![c] = AfterDecode(local[c].video_temp_path, s.exc)]
               /\ UNCHANGED <<fs, arg>>
          ELSE /\ \E d \in tempfile_name(fs) :
                    IF d.exc = NoExc
                    THEN /\ fs' = [fs EXCEPT ![d.name] = DirEntry(c, {})]
                         /\ local' = [local EXCEPT
                              ![c].ffmpeg_dir = d.name,
                              ![c].ffmpeg_stdin = s.stdin,
                              ![c].ffmpeg_args =
                                  BuildArgs(s.args, ExtraArgs,
                                            OutputPattern(d.name, config._encoding_format))]
                         /\ hist' = [hist EXCEPT ![c].ntemp = @ + 1]
                         /\ pc' = [pc EXCEPT ![c] = "popen"]
                    ELSE /\ fs' = fs
                         /\ local' = [local EXCEPT ![c].exc = d.exc]
                         /\ hist' = [hist EXCEPT ![c] = Raised(@, d.exc)]
                         /\ pc' = [pc EXCEPT ![c] = AfterDecode(local[c].video_temp_path, d.exc)]
               /\ arg' = [arg EXCEPT ![c] =
                            IF x.kind = "stream" THEN [x EXCEPT !.pos = SeekAndRead(x).pos] ELSE @]
    /\ UNCHANGED <<ctor, heap, config>>

\* The decoder started and left running: its output is collected without
\* waiting for its end.
PopenDetached(c) ==
    /\ pc[c] = "popen"
    /\ local' = [local EXCEPT ![c].process = [state |-> "running"]]
    /\ hist' = [hist EXCEPT ![c].nspawn = @ + 1]
    /\ pc' = [pc EXCEPT ![c] = "collect"]
    /\ UNCHANGED <<ctor, heap, config, fs, arg>>

\* Lines 114-117: subprocess.Popen(ffmpeg_args, ...): the decoder starts,
\* or the binary cannot be run and OSError is raised inside the try.
Popen(c) ==
    /\ pc[c] = "popen"
    /\ \/ /\ local' = [local EXCEPT ![c].process = [state |-> "running"]]
          /\ hist' = [hist EXCEPT ![c].nspawn = @ + 1]
          /\ pc' = [pc EXCEPT ![c] = "communicate"]
       \/ /\ local' = [local EXCEPT ![c].exc = [type |-> "OSError", op |-> "Popen"]]
          /\ hist' = [hist EXCEPT ![c] = Raised(@, [type |-> "OSError", op |-> "Popen"])]
          /\ pc' = [pc EXCEPT ![c] = "rmtree"]
    /\ UNCHANGED <<ctor, heap, config, fs, arg>>

\* Lines 120-126: the exception for a nonzero return code.
DecodeError(ffmpeg_ret_code, ffmpeg_args, stdout_data, stderr_data) ==
    [type |-> "ValueError", code |-> ffmpeg_ret_code, command |-> ffmpeg_args,
     stdout |-> stdout_data, stderr |-> stderr_data]

\* The decoder run again after a nonzero return code.
AfterExitRetry(ffmpeg_ret_code) == IF ffmpeg_ret_code # 0 THEN "popen" ELSE "collect"

\* Lines 120 and 127: where _ffmpeg_decode goes on after the decoder's exit.
AfterExit(ffmpeg_ret_code) == IF ffmpeg_ret_code # 0 THEN "rmtree" ELSE "collect"

\* Lines 118-126: process.communicate(ffmpeg_stdin) returns when the decoder
\* has run to its end; a nonzero return code raises ValueError.
Communicate(c) ==
    /\ pc[c] = "communicate"
    /\ LET args == local[c].ffmpeg_args
           pattern == args[Len(args)]
           input == DecoderInput(fs, args[3], local[c].ffmpeg_stdin)
       IN \E run \in DecoderRuns(input, args, pattern[4]) :
            LET e == IF run.returncode # 0
                     THEN DecodeError(run.returncode, args, run.stdout, run.stderr)
                     ELSE NoExc
            IN /\ fs' = [fs EXCEPT ![pattern[2]].files = run.files]
               /\ local' = [local EXCEPT
                    ![c].process = [state |-> "exited", returncode |-> run.returncode,
                                    stdout |-> run.stdout, stderr |-> run.stderr],
                    ![c].exc = e]
               /\ hist' = [hist EXCEPT ![c] = IF e = NoExc THEN @ ELSE Raised(@, e)]
               /\ pc' = [pc EXCEPT ![c] = AfterExit(run.returncode)]
    /\ UNCHANGED <<ctor, heap, config, arg>>

\* Lines 127-131: the frames, read in the sorted order of their file names.
ReadFrames(files, listed) ==
    LET names == sorted(listed) IN [i \in 1..Len(names) |-> FileData(files, names[i])]

\* Lines 127-131, with os.listdir returning the names in any order; reading
\* a file may fail with IOError.
Collect(c) ==
    /\ pc[c] = "collect"
    /\ LET files == fs[local[c].ffmpeg_dir].files IN
         \/ \E listed \in Listings({f.name : f \in files}) :
              /\ local' = [local EXCEPT
                   ![c].listed = listed,
                   ![c].images = [kind |-> "frames", frames |-> ReadFrames(files, listed)]]
              /\ UNCHANGED hist
         \/ /\ files # {}
            /\ local' = [local EXCEPT ![c].exc = [type |-> "IOError", op |-> "read"]]
            /\ hist' = [hist EXCEPT ![c] = Raised(@, [type |-> "IOError", op |-> "read"])]
    /\ pc' = [pc EXCEPT ![c] = "rmtree"]
    /\ UNCHANGED <<ctor, heap, config, fs, arg>>

\* Lines 131-133: finally: shutil.rmtree(ffmpeg_dir), then the return of
\* images or the propagation of the exception to encode_example; the
\* locals of _ffmpeg_decode are gone with its frame.
RmtreeDir(c) ==
    /\ pc[c] = "rmtree"
    /\ fs' = shutil_rmtree(fs, local[c].ffmpeg_dir)
    /\ local' = [local EXCEPT ![c] =
                   [InitLocal EXCEPT
                      !.video_temp_path = local[c].video_temp_path,
                      !.exc = local[c].exc,
                      !.encoded_video =
                          IF local[c].exc = NoExc THEN local[c].images ELSE NoValue]]
    /\ pc' = [pc EXCEPT ![c] = AfterDecode(local[c].video_temp_path, local[c].exc)]
    /\ UNCHANGED <<ctor, heap, config, arg, hist>>

(* ----------------------------- specification --------------------------- *)

Next ==
    \/ CallerMutates
    \/ \E c \in Calls :
        \/ Call(c)
        \/ Copy(c)
        \/ DecodeBegin(c)
        \/ Popen(c)
        \/ Communicate(c)
        \/ Collect(c)
        \/ RmtreeDir(c)
        \/ UnlinkTemp(c)
        \/ Super(c)
        \/ Return(c)

Spec == Init /\ [][Next]_vars

\* The steps of a call in flight: the interpreter runs each statement of the
\* call to its end, and the decoder, once started, exits.
Step(c) ==
    \/ Copy(c)
    \/ DecodeBegin(c)
    \/ Popen(c)
    \/ Communicate(c)
    \/ Collect(c)
    \/ RmtreeDir(c)
    \/ UnlinkTemp(c)
    \/ Super(c)

FairSpec == Spec /\ \A c \in Calls : WF_vars(Step(c))

(* ------------------------------ properties ----------------------------- *)

\* The temporaries a call in flight holds: its local copy and its directory.
TempsOf(c) == {local[c].video_temp_path, local[c].ffmpeg_dir} \ {NoPath}

\* The temporary entries on the filesystem that call c created.
OwnedBy(c) == {p \in TmpPaths : fs[p].kind # "none" /\ fs[p].owner = c}

Unrecognized == {"noseek", "noread"}

\* C1: when a call of encode_example is over, whatever its input and its
\* outcome, no temporary directory or file that it created is left.
C1_NoTemporaryRemains ==
    \A c \in Calls : pc[c] \in {"done", "idle"} => OwnedBy(c) = {}

\* A call that copied the file, made the directory, saw the decoder fail
\* and is over.
C1_Witness ==
    \E c \in Calls :
        /\ pc[c] = "done"
        /\ hist[c].ntemp = 2
        /\ local[c].exc.type = "ValueError"

\* A call that is over after its local copy failed half-way.
C1_WitnessCopyFailure ==
    \E c \in Calls :
        /\ pc[c] = "done"
        /\ hist[c].ntemp = 1
        /\ local[c].exc.type = "CopyIOError"

\* C2: the error a call ends with is the first error raised in it: the
\* cleanup in a finally never puts its own failure in the place of the
\* copy or decode error.
C2_CleanupNeverMasks ==
    \A c \in Calls : pc[c] = "done" => local[c].exc = hist[c].primary

\* C3: when the decoder exits nonzero, ValueError is raised with the exit
\* code, the argument vector, stdout and stderr; the call ends with that
\* error, returns no frames and leaves no temporary directory.
C3_NonzeroExitSurfacesDecodeError ==
    \A c \in Calls :
        /\ (local[c].process.state = "exited" /\ local[c].process.returncode # 0)
             => /\ local[c].exc = DecodeError(local[c].process.returncode,
                                              local[c].ffmpeg_args,
                                              local[c].process.stdout,
                                              local[c].process.stderr)
                /\ local[c].images = NoValue
        /\ (pc[c] = "done" /\ hist[c].primary.type = "ValueError")
             => /\ local[c].exc = hist[c].primary
                /\ local[c].encoded_video = NoValue
                /\ hist[c].delegated = NoValue
                /\ OwnedBy(c) = {}

\* C4: a decoder that exits zero and leaves its directory empty makes the
\* call fail: an empty frame sequence is never the result.
C4_EmptyOutputFails ==
    \A c \in Calls :
        local[c].encoded_video.kind = "frames" => local[c].encoded_video.frames # <<>>

\* C5: two calls in flight never hold the same temporary path.
C5_NoSharedTemporary ==
    \A c, d \in Calls :
        (c # d /\ pc[c] \notin {"idle", "done"} /\ pc[d] \notin {"idle", "done"})
            => TempsOf(c) \cap TempsOf(d) = {}

\* C6: a value that is no array, no string and no stream is rejected with
\* an error before any temporary is made and before any decoder is started.
C6_UnrecognizedRejectedFirst ==
    \A c \in Calls :
        arg[c].kind \in Unrecognized
            => /\ pc[c] \in {"decode", "done"}
               /\ hist[c].ntemp = 0
               /\ hist[c].nspawn = 0
               /\ TempsOf(c) = {}
               /\ pc[c] = "done"
                    => /\ local[c].exc.type = "AttributeError"
                       /\ hist[c].delegated = NoValue

\* A call with an unrecognized value that is over.
C6_Witness ==
    \E c \in Calls :
        /\ arg[c].kind \in Unrecognized
        /\ pc[c] = "done"
        /\ local[c].exc.type = "AttributeError"

\* C7 (as claimed): every call with a path or a stream has started the
\* decoder exactly once when it is over.
C7_SpawnedExactlyOnce ==
    \A c \in Calls :
        (pc[c] = "done" /\ arg[c].kind \in {"path", "stream"}) => hist[c].nspawn = 1

\* C7 (amended): a call with a path or a stream starts the decoder at most
\* once, exactly once when it returns normally, and a nonzero exit ends the
\* call in failure.
C7_SpawnedAtMostOnce ==
    \A c \in Calls :
        arg[c].kind \in {"path", "stream"}
            => /\ hist[c].nspawn <= 1
               /\ (pc[c] \in {"super", "done"} /\ local[c].exc = NoExc) => hist[c].nspawn = 1
               /\ (pc[c] = "done" /\ hist[c].primary.type = "ValueError")
                    => /\ local[c].exc # NoExc
                       /\ hist[c].delegated = NoValue

\* A call whose only decoder run exited nonzero and that is over.
C7_Witness ==
    \E c \in Calls :
        /\ pc[c] = "done"
        /\ arg[c].kind \in {"path", "stream"}
        /\ hist[c].nspawn = 1
        /\ hist[c].primary.type = "ValueError"

\* C8: an array is handed unchanged to the downstream encoder, with no
\* decoder started and no temporary made, whatever copy_locally is.
C8_ArrayPassedThrough ==
    \A c \in Calls :
        arg[c].kind = "array"
            => /\ pc[c] \in {"super", "done"}
               /\ local[c].encoded_video = arg[c]
               /\ local[c].exc = NoExc
               /\ hist[c].nspawn = 0
               /\ hist[c].ntemp = 0
               /\ TempsOf(c) = {}
               /\ pc[c] = "done" => hist[c].delegated = arg[c]

\* An array handed on by a connector built with copy_locally set.
C8_Witness ==
    \E c \in Calls :
        /\ arg[c].kind = "array"
        /\ config._copy_locally
        /\ pc[c] = "done"
        /\ hist[c].delegated = arg[c]

\* The frames of a directory in ascending order of file name: the file
\* with k smaller names comes at place k + 1.
AscendingByName(files, frames) ==
    /\ Len(frames) = Cardinality(files)
    /\ \A f \in files :
         frames[1 + Cardinality({g \in files : StrLess(g.name, f.name)})] = f.data

\* C9: whatever order the directory is listed in, the frames returned are
\* one per output file, in ascending order of file name.
C9_OrderIndependentOfListing ==
    \A c \in Calls :
        (pc[c] = "rmtree" /\ local[c].images.kind = "frames")
            => AscendingByName(fs[local[c].ffmpeg_dir].files, local[c].images.frames)

\* A directory of two files listed in descending order of name.
C9_Witness ==
    \E c \in Calls :
        /\ pc[c] = "rmtree"
        /\ local[c].images.kind = "frames"
        /\ Len(local[c].listed) = 2
        /\ StrLess(local[c].listed[2], local[c].listed[1])

\* C10: the frames come in the order of their numbers: each frame of the
\* result is the one after the frame before it.
C10_LexicographicIsNumeric ==
    \A c \in Calls :
        local[c].encoded_video.kind = "frames"
            => \A i \in 1..Len(local[c].encoded_video.frames) :
                   local[c].encoded_video.frames[i].frame = i

\* Two frames whose numbers differ in their count of digits, returned.
C10_Witness ==
    \E c \in Calls :
        /\ local[c].encoded_video.kind = "frames"
        /\ Len(local[c].encoded_video.frames) = MaxFrames
        /\ StartNumber(ExtraArgs) = MaxStart

\* The source the decoder is to be given for the call: the path handed
\* in, the local copy of it, or the token of standard input.
ExpectedSource(c) ==
    IF arg[c].kind = "stream" THEN <<"pipe:0">>
    ELSE IF config._copy_locally THEN local[c].video_temp_path
    ELSE arg[c].val

\* C11: the argument vector is the binary, "-i", the source, the extra
\* arguments as configured and in their order, and last the pattern
\* %010d.<encoding_format> inside the directory made for this call.
C11_ArgumentVector ==
    \A c \in Calls :
        local[c].ffmpeg_args # <<>>
            => LET args == local[c].ffmpeg_args
                   n == Len(ExtraArgs)
               IN /\ Len(args) = 3 + n + 1
                  /\ args[1] = <<"ffmpeg">>
                  /\ args[2] = <<"-i">>
                  /\ args[3] = ExpectedSource(c)
                  /\ \A i \in 1..n : args[3 + i] = ExtraArgs[i]
                  /\ args[3 + n + 1] =
                       <<"join", local[c].ffmpeg_dir, "%010d.", config._encoding_format>>
                  /\ fs[local[c].ffmpeg_dir] # NoEntry
                  /\ fs[local[c].ffmpeg_dir].kind = "dir"
                  /\ fs[local[c].ffmpeg_dir].owner = c

\* A decoder running on a local copy with two extra arguments.
C11_Witness ==
    \E c \in Calls :
        /\ pc[c] = "communicate"
        /\ local[c].video_temp_path # NoPath
        /\ Len(local[c].ffmpeg_args) = 6

\* C12: decoding with copy_locally gives what decoding the path itself
\* gives: while the decoder runs on the local copy, what it reads there is
\* what it would read at the path handed in.
C12_CopyTransparent ==
    \A c \in Calls :
        (pc[c] = "communicate" /\ local[c].video_temp_path # NoPath)
            => DecoderInput(fs, local[c].ffmpeg_args[3], local[c].ffmpeg_stdin)
                 = DecoderInput(fs, arg[c].val, local[c].ffmpeg_stdin)

\* The arguments of the call with the stream's file as the source.
PathArgs(c) == [local[c].ffmpeg_args EXCEPT ![3] = StreamFile]

\* What the decoder can do when given the stream's file by its path.
PathRuns(c) ==
    DecoderRuns(DecoderInput(fs, StreamFile, NoStdin), PathArgs(c),
                config._encoding_format)

\* C13 (as claimed): however the decoder ends on a stream, it can end the
\* same way on the path of the same file.
C13_StreamAgreesWithPath ==
    \A c \in Calls :
        (arg[c].kind = "stream" /\ local[c].process.state = "exited")
            => \E r \in PathRuns(c) :
                 /\ r.returncode = local[c].process.returncode
                 /\ r.stderr = local[c].process.stderr
                 /\ r.files = fs[local[c].ffmpeg_dir].files

\* C13 (amended): the decoder of a stream is given the whole contents of
\* the file on its standard input, and when it exits zero it has written
\* what it can write when given the file by its path.
C13_StreamFeedsWholeFile ==
    \A c \in Calls :
        arg[c].kind = "stream"
            => /\ local[c].ffmpeg_args # <<>>
                    => /\ local[c].ffmpeg_args[3] = <<"pipe:0">>
                       /\ local[c].ffmpeg_stdin = [piped |-> TRUE, data |-> fs[StreamFile].data]
               /\ (local[c].process.state = "exited" /\ local[c].process.returncode = 0)
                    => \E r \in PathRuns(c) :
                         /\ r.returncode = 0
                         /\ r.files = fs[local[c].ffmpeg_dir].files

\* A stream handed in at its end whose decoder wrote every frame.
C13_Witness ==
    \E c \in Calls :
        /\ arg[c].kind = "stream"
        /\ local[c].process.state = "exited"
        /\ local[c].process.returncode = 0
        /\ local[c].path_or_fobj.pos = Len(VideoBytes)
        /\ Cardinality(fs[local[c].ffmpeg_dir].files) = MaxFrames

\* C14: a shape of rank 4 gives a connector, any other rank raises
\* ValueError with no field of the connector stored and no call made.
C14_RankChecked ==
    /\ Len(ctor.shape) = 4
         => /\ config.raised = NoExc
            /\ config._copy_locally = ctor.copy_locally
            /\ config._encoding_format = ctor.encoding_format
            /\ config._length = ctor.shape[1]
    /\ Len(ctor.shape) # 4
         => /\ config.raised.type = "ValueError"
            /\ DOMAIN config = {"raised"}
            /\ heap.own_list = <<>>
            /\ \A c \in Calls : pc[c] = "idle" /\ hist[c] = InitHist

\* A construction with a shape of rank 5 that raised.
C14_Witness ==
    /\ Len(ctor.shape) = 5
    /\ config.raised.type = "ValueError"

\* A construction with a shape of rank 4 whose connector has run a call.
C14_WitnessValid ==
    /\ Len(ctor.shape) = 4
    /\ \E c \in Calls : pc[c] = "done"

\* C15: with copy_locally the decoder is given the local copy, the copy
\* is there as long as the decoder runs, and it is removed only after the
\* decoder has exited, whether the decode succeeded or failed.
C15_CopyDecodeRemove ==
    \A c \in Calls :
        local[c].video_temp_path # NoPath
            => /\ local[c].process.state = "running"
                    => /\ local[c].ffmpeg_args[3] = local[c].video_temp_path
                       /\ fs[local[c].video_temp_path]
                            = FileEntry(c, fs[arg[c].val].data)
               /\ pc[c] \in {"unlink", "super", "done"}
                    => local[c].process.state # "running"
               /\ pc[c] \in {"super", "done"} => OwnedBy(c) = {}

\* C16: wherever a stream stands when it is handed in, the decoder's
\* standard input is given all of its bytes from offset 0 and the stream
\* is left at its end; for a path nothing is given to standard input.
C16_StreamRewound ==
    \A c \in Calls :
        local[c].ffmpeg_args # <<>>
            => /\ arg[c].kind = "stream"
                    => /\ local[c].ffmpeg_stdin.piped
                       /\ local[c].ffmpeg_stdin.data = local[c].path_or_fobj.data
                       /\ Len(local[c].ffmpeg_stdin.data) = Len(VideoBytes)
                       /\ arg[c].pos = Len(arg[c].data)
               /\ arg[c].kind = "path" => local[c].ffmpeg_stdin = NoStdin

\* A stream handed in at its end, read whole for a running decoder.
C16_Witness ==
    \E c \in Calls :
        /\ arg[c].kind = "stream"
        /\ pc[c] = "communicate"
        /\ local[c].path_or_fobj.pos = Len(VideoBytes)
        /\ local[c].ffmpeg_stdin = [piped |-> TRUE, data |-> VideoBytes]

\* A call that is over is Encoded (no exception, a value handed downstream)
\* or Failed (an exception, nothing handed downstream).
Encoded(c) == local[c].exc = NoExc /\ hist[c].delegated # NoValue

Failed(c) == local[c].exc # NoExc /\ hist[c].delegated = NoValue

\* C17: a call ends Encoded or Failed and never both; the downstream
\* encoder is called at most once per call, from the step before the end,
\* with none of the call's temporaries left and no exception raised in the
\* call.
C17_DelegatesOnlyWhenEncoded ==
    /\ [](\A c \in Calls :
            /\ pc[c] = "done" => Encoded(c) # Failed(c)
            /\ pc[c] = "super"
                  => OwnedBy(c) = {} /\ local[c].exc = NoExc /\ hist[c].primary = NoExc
            /\ hist[c].delegated # NoValue => pc[c] = "done" /\ hist[c].primary = NoExc)
    /\ [][\A c \in Calls :
            (hist'[c].delegated # hist[c].delegated /\ hist'[c].delegated # NoValue)
                => /\ pc[c] = "super"
                   /\ hist[c].delegated = NoValue
                   /\ hist'[c].delegated = local[c].encoded_video
                   /\ OwnedBy(c) = {}]_vars

\* A copied video decoded into frames and handed downstream while the other
\* call has failed.
C17_Witness ==
    \E c, d \in Calls :
        /\ pc[c] = "done" /\ Encoded(c)
        /\ local[c].video_temp_path # NoPath
        /\ hist[c].delegated.kind = "frames"
        /\ pc[d] = "done" /\ Failed(d)

\* C18: a decoder is running only while its call waits for it, so no call
\* is over with its decoder running; and, the decoder exiting, every call
\* in flight comes to its end, Encoded or Failed, with none of its
\* temporaries left.
C18_WaitsAndTerminates ==
    /\ [](\A c \in Calls : local[c].process.state = "running" => pc[c] = "communicate")
    /\ \A c \in Calls :
          (pc[c] \notin {"idle", "done"})
              ~> (pc[c] = "done" /\ (Encoded(c) \/ Failed(c)) /\ OwnedBy(c) = {})

\* A call over after its decoder ran and exited, nothing of it left.
C18_Witness ==
    \E c \in Calls :
        /\ pc[c] = "done"
        /\ hist[c].nspawn = 1
        /\ Encoded(c)
        /\ OwnedBy(c) = {}

\* The extra arguments in an argument vector: what stands between the
\* three source arguments and the output pattern.
ExtrasOf(ffmpeg_args) == SubSeq(ffmpeg_args, 4, Len(ffmpeg_args) - 1)

\* C19: the connector keeps the encoding format, the copy flag and the extra
\* arguments it was constructed with, whatever calls are made and whatever
\* the caller does to the list it passed; every argument vector carries
\* the extra arguments as they were at construction.
C19_ConfigFixedAtConstruction ==
    /\ [](config.raised = NoExc
            => /\ config._encoding_format = ctor.encoding_format
               /\ config._copy_locally = ctor.copy_locally
               /\ ExtraArgs = ctor.passed
               /\ \A c \in Calls :
                     local[c].ffmpeg_args # <<>>
                         => ExtrasOf(local[c].ffmpeg_args) = ctor.passed)
    /\ [][config' = config /\ ctor' = ctor]_vars

\* An argument vector built, with its two extra arguments, after the caller
\* changed the list it had passed, by a worker whose earlier call failed.
C19_Witness ==
    \E c \in Calls :
        /\ heap.args_list # ctor.passed
        /\ local[c].ffmpeg_args # <<>>
        /\ Len(ExtrasOf(local[c].ffmpeg_args)) = 2
        /\ \E d \in Calls \ {c} : pc[d] = "done" /\ Failed(d)

\* C20: no step removes or changes a file of the caller, and an entry that
\* a step removes was created by the call that takes the step.
C20_DeletesOnlyOwnTemporaries ==
    [][\A p \in Paths :
          /\ p \in SrcPaths => fs'[p] = fs[p]
          /\ (fs[p].kind # "none" /\ fs'[p].kind = "none")
                => \E c \in Calls : pc'[c] # pc[c] /\ fs[p].owner = c]_vars

====
